---- MODULE Spec2Model ----
(***************************************************************************)
(* The dispatch facade of qadence/execution.py: run, sample, expectation.  *)
(* One facade call is followed from the call site through singledispatch   *)
(* (register / int / block overloads re-entering the facade) into the      *)
(* QuantumCircuit overload, whose body is taken step by step:              *)
(* backend_factory, convert, the no_grad context, embedding_fn, and the    *)
(* backend operation.  torch's gradient mode is a global flag; it starts   *)
(* enabled (torch's default) and no_grad saves, clears and restores it.    *)
(* Callers pass only keyword options the overload's signature accepts, and *)
(* circuits, registers and blocks that satisfy the circuit invariant.      *)
(***************************************************************************)
EXTENDS Integers, Sequences, FiniteSets, TLC

\* ---------------------------------------------------------------- bounds
MaxQubit == 1
MaxNQubits == 2
ShotsArg == 10

\* ------------------------------------------------------ program constants
DefaultNShots == 100

Omitted == "Omitted"
None == "None"

Ops == {"run", "sample", "expectation"}
Registered == {"QuantumCircuit", "Register", "int", "AbstractBlock"}
XTypes == Registered \cup {"float"}

\* ------------------------------------------- collaborators (not in src/)
SetMax(S) == CHOOSE m \in S : \A k \in S : k <= m

\* Register(n): the default register on n qubits.
Register(n) == [n_qubits |-> n, topology |-> "default"]

QuantumCircuit(register, block) == [register |-> register, block |-> block]

\* AbstractBlock.n_qubits: highest referenced qubit index + 1.
n_qubits(block) == SetMax(block.qubit_support) + 1

Supports == {{q} : q \in 0..MaxQubit} \cup {0..MaxQubit}
Blocks == [qubit_support : Supports, kind : {"digital"}]
            \cup {[qubit_support |-> {0}, kind |-> "analog"]}
Registers == [n_qubits : 1..MaxNQubits, topology : {"default", "line"}]
\* Circuit invariant: every qubit index a block references is below the
\* register's qubit count
Fits(n, b) == n_qubits(b) <= n
Circuits == {QuantumCircuit(r, b) : r \in Registers, b \in Blocks}
ObsZ(q) == [qubit_support |-> {q}, kind |-> "digital"]
\* an observable argument is a single block or a list of blocks
Observables == {[is_list |-> FALSE, blocks |-> <<ObsZ(0)>>],
                [is_list |-> TRUE, blocks |-> <<ObsZ(0), ObsZ(0)>>]}
NoObservable == [is_list |-> FALSE, blocks |-> <<>>]

KnownBackends == {"pyqtorch", "pulser"}
ValidConfigurations == {None, "spacing=8"}

\* backend_factory(name, configuration): the error it raises, or None
backend_factory_error(name, configuration) ==
    IF name \notin KnownBackends THEN "UnknownBackendError"
    ELSE IF configuration \notin ValidConfigurations THEN "InvalidConfigurationError"
    ELSE None

\* The backend instance; diff_mode is the mode of the differentiable wrapper
\* attached at construction (None: a bare backend).
backend_factory(name, diff_mode, configuration) ==
    [name |-> name, configuration |-> configuration, diff_mode |-> diff_mode]

\* Backend.convert: rejects a block type the backend cannot compile
convert_error(bknd, circuit) ==
    IF bknd.name = "pyqtorch" /\ circuit.block.kind = "analog"
    THEN "UnsupportedOperationError" ELSE None

convert(bknd, circuit, observable) ==
    [circuit |-> [native |-> bknd.name, of |-> circuit],
     observable |-> [native |-> bknd.name, of |-> observable.blocks],
     params |-> circuit.block.qubit_support]

\* embedding function: side-effect free, reads the values mapping; a mapping
\* is a set of <<name, batch size>> entries
embedding_fn(params, values) == [params |-> params, values |-> values]

\* entries of one mapping must share the batch dimension
embedding_error(values) ==
    IF \E u \in values, v \in values : u[2] # v[2]
    THEN "BatchSizeMismatchError" ELSE None

\* ------------------------------------------------------------------ heap
\* The mutable dicts the facade can reach: each overload's shared default
\* `values: dict = {}` and the caller's own mapping.
DefaultValuesRef(op) == <<"default", op>>
CallerValuesRef == <<"caller", "values">>
CallerRaggedRef == <<"caller", "ragged">>
InitHeap ==
    [r \in {DefaultValuesRef(op) : op \in Ops}
            \cup {CallerValuesRef, CallerRaggedRef} |->
        IF r = CallerValuesRef THEN {<<"x", 2>>}
        ELSE IF r = CallerRaggedRef THEN {<<"x", 2>>, <<"y", 3>>}
        ELSE {}]

\* ---------------------------------------------------------- call frames
KwValues == {Omitted, "caller", "ragged"}
KwState == {Omitted, "psi"}
KwBackend == {Omitted, "pulser", "nonexistent"}
KwEndianness == {Omitted, "LITTLE"}
KwConfiguration == {Omitted, "spacing=8", "spacing=-1"}
KwDiffMode == {Omitted, "ad", "gpsr"}
KwNShots == {{}, {ShotsArg}}

Kwargs(op) ==
    [values : KwValues, state : KwState, backend : KwBackend,
     endianness : KwEndianness, configuration : KwConfiguration,
     n_shots : IF op = "sample" THEN KwNShots ELSE {{}},
     diff_mode : IF op = "expectation" THEN KwDiffMode ELSE {Omitted}]

ObservablesOf(op) == IF op = "expectation" THEN Observables ELSE {NoObservable}

Frame(op, xtype, circuit, register, n, block, observable, kwargs) ==
    [op |-> op, xtype |-> xtype, circuit |-> circuit, register |-> register,
     n_qubits |-> n, block |-> block, observable |-> observable,
     kwargs |-> kwargs]

CircuitCall(op, c, obs, kw) == Frame(op, "QuantumCircuit", {c}, {}, {}, {}, obs, kw)
RegisterCall(op, r, b, obs, kw) == Frame(op, "Register", {}, {r}, {}, {b}, obs, kw)
IntCall(op, n, b, obs, kw) == Frame(op, "int", {}, {}, {n}, {b}, obs, kw)
BlockCall(op, b, obs, kw) == Frame(op, "AbstractBlock", {}, {}, {}, {b}, obs, kw)
\* run(3.14, block, ...), sample(3.14, block, ...): the block lands in *args;
\* expectation(3.14, observable, ...): the fallback takes (x, observable, ...)
FloatCall(op, b, obs, kw) ==
    Frame(op, "float", {}, {}, {}, IF op = "expectation" THEN {} ELSE {b}, obs, kw)

\* the calls a caller can make: the four shapes and an unsupported one
CallShapes(op, obs, kw) ==
    {CircuitCall(op, c, obs, kw) :
        c \in {x \in Circuits : Fits(x.register.n_qubits, x.block)}}
    \cup {RegisterCall(op, rb[1], rb[2], obs, kw) :
             rb \in {x \in Registers \X Blocks : Fits(x[1].n_qubits, x[2])}}
    \cup {IntCall(op, nb[1], nb[2], obs, kw) :
             nb \in {x \in (1..MaxNQubits) \X Blocks : Fits(x[1], x[2])}}
    \cup {BlockCall(op, b, obs, kw) : b \in Blocks}
    \cup {FloatCall(op, b, obs, kw) : b \in Blocks}

The(S) == CHOOSE x \in S : TRUE

NoFrame == Frame("run", "float", {}, {}, {}, {}, NoObservable,
                 [values |-> Omitted, state |-> Omitted, backend |-> Omitted,
                  endianness |-> Omitted, configuration |-> Omitted,
                  n_shots |-> {}, diff_mode |-> Omitted])

\* ------------------------------------------------- singledispatch layer
\* functools.singledispatch: the overload registered for the runtime type of
\* the first argument, or the undecorated fallback ("object").
Dispatch(xtype) == IF xtype \in Registered THEN xtype ELSE "object"

\* variant: one fallback raises another exception type
FallbackErrorOther(op) ==
    IF op = "sample" THEN "NotImplementedError" ELSE "ValueError"

\* the fallback bodies: raise ValueError(f"Cannot run {type(x)}") etc.
FallbackError(op) == "ValueError"

RunRegisterHandler(f) ==
    CircuitCall("run", QuantumCircuit(The(f.register), The(f.block)),
                f.observable, f.kwargs)

RunIntHandler(f) ==
    RegisterCall("run", Register(The(f.n_qubits)), The(f.block),
                 f.observable, f.kwargs)

RunBlockHandler(f) ==
    RegisterCall("run", Register(n_qubits(The(f.block))), The(f.block),
                 f.observable, f.kwargs)

SampleRegisterHandler(f) ==
    CircuitCall("sample", QuantumCircuit(The(f.register), The(f.block)),
                f.observable, f.kwargs)

SampleIntHandler(f) ==
    RegisterCall("sample", Register(The(f.n_qubits)), The(f.block),
                 f.observable, f.kwargs)

\* variant: the register is sized by the number of qubits the block touches
SampleBlockHandlerCount(f) ==
    LET reg == Register(Cardinality(The(f.block).qubit_support))
    IN  RegisterCall("sample", reg, The(f.block), f.observable, f.kwargs)

SampleBlockHandler(f) ==
    LET reg == Register(n_qubits(The(f.block)))
    IN  RegisterCall("sample", reg, The(f.block), f.observable, f.kwargs)

ExpectationRegisterHandler(f) ==
    CircuitCall("expectation", QuantumCircuit(The(f.register), The(f.block)),
                f.observable, f.kwargs)

\* variant: the int overload builds a line register instead of Register(n)
ExpectationIntHandlerLine(f) ==
    LET reg == [n_qubits |-> The(f.n_qubits), topology |-> "line"]
    IN  CircuitCall("expectation", QuantumCircuit(reg, The(f.block)),
                    f.observable, f.kwargs)

ExpectationIntHandler(f) ==
    LET reg == Register(The(f.n_qubits))
    IN  CircuitCall("expectation", QuantumCircuit(reg, The(f.block)),
                    f.observable, f.kwargs)

ExpectationBlockHandler(f) ==
    LET reg == Register(n_qubits(The(f.block)))
    IN  CircuitCall("expectation", QuantumCircuit(reg, The(f.block)),
                    f.observable, f.kwargs)

\* the overload singledispatch selects for frame f, applied to it
Handler(f) ==
    CASE f.op = "run" /\ f.xtype = "Register" -> RunRegisterHandler(f)
      [] f.op = "run" /\ f.xtype = "int" -> RunIntHandler(f)
      [] f.op = "run" /\ f.xtype = "AbstractBlock" -> RunBlockHandler(f)
      [] f.op = "sample" /\ f.xtype = "Register" -> SampleRegisterHandler(f)
      [] f.op = "sample" /\ f.xtype = "int" -> SampleIntHandler(f)
      [] f.op = "sample" /\ f.xtype = "AbstractBlock" -> SampleBlockHandler(f)
      [] f.op = "expectation" /\ f.xtype = "Register" -> ExpectationRegisterHandler(f)
      [] f.op = "expectation" /\ f.xtype = "int" -> ExpectationIntHandler(f)
      [] f.op = "expectation" /\ f.xtype = "AbstractBlock" -> ExpectationBlockHandler(f)

\* the chain of overloads from a supported call down to the circuit overload
RECURSIVE Normalize(_)
Normalize(f) == IF f.xtype = "QuantumCircuit" THEN f ELSE Normalize(Handler(f))

\* ------------------------------------------- the QuantumCircuit overloads
Default(v, d) == IF v = Omitted THEN d ELSE v

\* variant: the default values mapping is a non-empty shared dict
RunDefaultsShared(kw) ==
    [values |-> Default(kw.values, CallerValuesRef),
     state |-> Default(kw.state, None),
     backend |-> Default(kw.backend, "pyqtorch"),
     endianness |-> Default(kw.endianness, "BIG"),
     configuration |-> Default(kw.configuration, None),
     n_shots |-> DefaultNShots,
     diff_mode |-> None]

RunDefaults(kw) ==
    [values |-> Default(kw.values, DefaultValuesRef("run")),
     state |-> Default(kw.state, None),
     backend |-> Default(kw.backend, "pyqtorch"),
     endianness |-> Default(kw.endianness, "BIG"),
     configuration |-> Default(kw.configuration, None),
     n_shots |-> DefaultNShots,
     diff_mode |-> None]

SampleDefaults(kw) ==
    [values |-> Default(kw.values, DefaultValuesRef("sample")),
     state |-> Default(kw.state, None),
     backend |-> Default(kw.backend, "pyqtorch"),
     endianness |-> Default(kw.endianness, "BIG"),
     configuration |-> Default(kw.configuration, None),
     n_shots |-> IF kw.n_shots = {} THEN DefaultNShots ELSE The(kw.n_shots),
     diff_mode |-> None]

ExpectationDefaults(kw) ==
    [values |-> Default(kw.values, DefaultValuesRef("expectation")),
     state |-> Default(kw.state, None),
     backend |-> Default(kw.backend, "pyqtorch"),
     endianness |-> Default(kw.endianness, "BIG"),
     configuration |-> Default(kw.configuration, None),
     n_shots |-> DefaultNShots,
     diff_mode |-> Default(kw.diff_mode, None)]

\* the parameters of the circuit overload as bound for frame f
Bound(f) ==
    CASE f.op = "run" -> RunDefaults(f.kwargs)
      [] f.op = "sample" -> SampleDefaults(f.kwargs)
      [] f.op = "expectation" -> ExpectationDefaults(f.kwargs)

\* a values argument is the caller's dict or the overload's default dict
ValuesRef(v) ==
    IF v = "caller" THEN CallerValuesRef
    ELSE IF v = "ragged" THEN CallerRaggedRef
    ELSE v

\* observable = observable if isinstance(observable, list) else [observable]
NormalizeObservable(obs) ==
    IF obs.is_list THEN obs ELSE [is_list |-> TRUE, blocks |-> <<obs.blocks[1]>>]

\* bknd = backend_factory(backend, configuration=configuration):
\* diff_mode is not among the arguments, so the factory's own default applies
FactoryCall(a) ==
    [name |-> a.backend, diff_mode |-> None, configuration |-> a.configuration]

\* variant: expectation disables gradients whatever diff_mode is
NoGradWrappedAlways(op, a) == op \in {"run", "expectation"}

\* whether the overload wraps embedding and backend operation in no_grad()
NoGradWrapped(op, a) ==
    \/ op = "run"
    \/ op = "expectation" /\ a.diff_mode = None

\* variant: a failed backend_factory is tried again
CircuitHandlerNextRetry(at, raised, wrapped) ==
    IF raised THEN (IF at = "factory" THEN "factory" ELSE "done")
    ELSE CASE at = "factory" -> "convert"
           [] at = "convert" -> IF wrapped THEN "no_grad" ELSE "embed"
           [] at = "no_grad" -> "embed"
           [] at = "embed" -> "exec"
           [] at = "exec" -> "done"

\* control flow of the circuit overload's body; an exception leaves it
CircuitHandlerNext(at, raised, wrapped) ==
    IF raised THEN "done"
    ELSE CASE at = "factory" -> "convert"
           [] at = "convert" -> IF wrapped THEN "no_grad" ELSE "embed"
           [] at = "no_grad" -> "embed"
           [] at = "embed" -> "exec"
           [] at = "exec" -> "done"

BackendOp(op) == op

\* the keyword arguments of bknd.run / bknd.sample / bknd.expectation
RunCallArgs(a, cv, pv) ==
    [circuit |-> cv.circuit, param_values |-> pv, state |-> a.state,
     endianness |-> a.endianness]

\* variant: n_shots is not threaded to bknd.sample
SampleCallArgsDefaultShots(a, cv, pv) ==
    [circuit |-> cv.circuit, param_values |-> pv, n_shots |-> DefaultNShots,
     state |-> a.state, endianness |-> a.endianness]

SampleCallArgs(a, cv, pv) ==
    [circuit |-> cv.circuit, param_values |-> pv, n_shots |-> a.n_shots,
     state |-> a.state, endianness |-> a.endianness]

ExpectationCallArgs(a, cv, pv) ==
    [circuit |-> cv.circuit, observable |-> cv.observable, param_values |-> pv,
     state |-> a.state, endianness |-> a.endianness]

BackendCallArgs(op, a, cv, pv) ==
    CASE op = "run" -> RunCallArgs(a, cv, pv)
      [] op = "sample" -> SampleCallArgs(a, cv, pv)
      [] op = "expectation" -> ExpectationCallArgs(a, cv, pv)

\* what a backend operation returns: determined by what it received; a tensor
\* computed with gradient tracking on supports differentiation, counts never do
backend_result(op, callargs, grad) ==
    [op |-> op, call |-> callargs, requires_grad |-> grad /\ op # "sample"]

Event(ev, grad) == [ev |-> ev, grad |-> grad]

VARIABLES pc, frame, orig, depth, bknd, conv, param_values, grad_enabled,
          grad_saved, trace, result, error, heap

vars == <<pc, frame, orig, depth, bknd, conv, param_values, grad_enabled,
          grad_saved, trace, result, error, heap>>

Init ==
    /\ pc = "idle"
    /\ frame = NoFrame
    /\ orig = NoFrame
    /\ depth = 0
    /\ bknd = {}
    /\ conv = {}
    /\ param_values = {}
    /\ grad_enabled = TRUE
    /\ grad_saved = <<>>
    /\ trace = <<>>
    /\ result = {}
    /\ error = {}
    /\ heap = InitHeap

\* ---------------------------------------------------------------- actions
\* the caller invokes run / sample / expectation with one of the shapes
Call ==
    /\ pc = "idle"
    /\ \E op \in Ops :
         \E obs \in ObservablesOf(op), kw \in Kwargs(op) :
           \E f \in CallShapes(op, obs, kw) :
             /\ frame' = f
             /\ orig' = f
    /\ pc' = "dispatch"
    /\ UNCHANGED <<depth, bknd, conv, param_values, grad_enabled, grad_saved,
                   trace, result, error, heap>>

\* first argument of an unregistered type: the fallback body raises
DispatchFallback ==
    /\ pc = "dispatch"
    /\ Dispatch(frame.xtype) = "object"
    /\ error' = {[kind |-> FallbackError(frame.op), at |-> "dispatch"]}
    /\ pc' = "done"
    /\ UNCHANGED <<frame, orig, depth, bknd, conv, param_values, grad_enabled,
                   grad_saved, trace, result, heap>>

\* (register, block, ...) overload
DispatchRegister ==
    /\ pc = "dispatch"
    /\ Dispatch(frame.xtype) = "Register"
    /\ frame' = Handler(frame)
    /\ depth' = depth + 1
    /\ UNCHANGED <<pc, orig, bknd, conv, param_values, grad_enabled, grad_saved,
                   trace, result, error, heap>>

\* (n_qubits, block, ...) overload
DispatchInt ==
    /\ pc = "dispatch"
    /\ Dispatch(frame.xtype) = "int"
    /\ frame' = Handler(frame)
    /\ depth' = depth + 1
    /\ UNCHANGED <<pc, orig, bknd, conv, param_values, grad_enabled, grad_saved,
                   trace, result, error, heap>>

\* (block, ...) overload
DispatchBlock ==
    /\ pc = "dispatch"
    /\ Dispatch(frame.xtype) = "AbstractBlock"
    /\ frame' = Handler(frame)
    /\ depth' = depth + 1
    /\ UNCHANGED <<pc, orig, bknd, conv, param_values, grad_enabled, grad_saved,
                   trace, result, error, heap>>

\* (circuit, ...) overload entered
DispatchCircuit ==
    /\ pc = "dispatch"
    /\ Dispatch(frame.xtype) = "QuantumCircuit"
    /\ pc' = "factory"
    /\ UNCHANGED <<frame, orig, depth, bknd, conv, param_values, grad_enabled,
                   grad_saved, trace, result, error, heap>>

\* bknd = backend_factory(backend, configuration=configuration)
Factory ==
    /\ pc = "factory"
    /\ LET a == Bound(frame)
           call == FactoryCall(a)
           e == backend_factory_error(call.name, call.configuration)
       IN  /\ trace' = Append(trace, Event("backend_factory", grad_enabled))
           /\ IF e # None
              THEN /\ error' = {[kind |-> e, at |-> "backend_factory"]}
                   /\ bknd' = bknd
              ELSE /\ bknd' = {backend_factory(call.name, call.diff_mode,
                                               call.configuration)}
                   /\ error' = error
           /\ pc' = CircuitHandlerNext("factory", e # None, NoGradWrapped(frame.op, a))
    /\ UNCHANGED <<frame, orig, depth, conv, param_values, grad_enabled,
                   grad_saved, result, heap>>

\* conv = bknd.convert(circuit) / bknd.convert(circuit, observable)
Convert ==
    /\ pc = "convert"
    /\ LET a == Bound(frame)
           b == The(bknd)
           c == The(frame.circuit)
           e == convert_error(b, c)
       IN  /\ trace' = Append(trace, Event("convert", grad_enabled))
           /\ IF e # None
              THEN /\ error' = {[kind |-> e, at |-> "convert"]}
                   /\ conv' = conv
              ELSE /\ conv' = {convert(b, c,
                                  IF frame.op = "expectation"
                                  THEN NormalizeObservable(frame.observable)
                                  ELSE NoObservable)}
                   /\ error' = error
           /\ pc' = CircuitHandlerNext("convert", e # None, NoGradWrapped(frame.op, a))
    /\ UNCHANGED <<frame, orig, depth, bknd, param_values, grad_enabled,
                   grad_saved, result, heap>>

\* with no_grad(): entered
EnterNoGrad ==
    /\ pc = "no_grad"
    /\ grad_saved' = <<grad_enabled>> \o grad_saved
    /\ grad_enabled' = FALSE
    /\ pc' = CircuitHandlerNext("no_grad", FALSE, TRUE)
    /\ UNCHANGED <<frame, orig, depth, bknd, conv, param_values, trace, result,
                   error, heap>>

\* param_values = conv.embedding_fn(conv.params, values); an exception
\* unwinds through the no_grad context (if any), which restores the mode
Embed ==
    /\ pc = "embed"
    /\ LET a == Bound(frame)
           v == heap[ValuesRef(a.values)]
           e == embedding_error(v)
       IN  /\ IF e # None
              THEN /\ error' = {[kind |-> e, at |-> "embedding_fn"]}
                   /\ param_values' = param_values
                   /\ IF grad_saved # <<>>
                      THEN /\ grad_enabled' = Head(grad_saved)
                           /\ grad_saved' = Tail(grad_saved)
                      ELSE UNCHANGED <<grad_enabled, grad_saved>>
              ELSE /\ param_values' = {embedding_fn(The(conv).params, v)}
                   /\ error' = error
                   /\ UNCHANGED <<grad_enabled, grad_saved>>
           /\ pc' = CircuitHandlerNext("embed", e # None, NoGradWrapped(frame.op, a))
    /\ trace' = Append(trace, Event("embedding_fn", grad_enabled))
    /\ UNCHANGED <<frame, orig, depth, bknd, conv, result, heap>>

\* bknd.run / bknd.sample / bknd.expectation, then the context (if any) is left
\* and the value returned
Execute ==
    /\ pc = "exec"
    /\ LET a == Bound(frame)
           args == BackendCallArgs(frame.op, a, The(conv), The(param_values))
       IN  /\ result' = {backend_result(BackendOp(frame.op), args, grad_enabled)}
           /\ pc' = CircuitHandlerNext("exec", FALSE, NoGradWrapped(frame.op, a))
    /\ trace' = Append(trace, Event(BackendOp(frame.op), grad_enabled))
    /\ IF grad_saved # <<>>
       THEN grad_enabled' = Head(grad_saved) /\ grad_saved' = Tail(grad_saved)
       ELSE UNCHANGED <<grad_enabled, grad_saved>>
    /\ UNCHANGED <<frame, orig, depth, bknd, conv, param_values, error, heap>>

\* the call is over: the caller holds the result or the exception
Return ==
    /\ pc = "done"
    /\ pc' = "idle"
    /\ frame' = NoFrame
    /\ orig' = NoFrame
    /\ depth' = 0
    /\ bknd' = {}
    /\ conv' = {}
    /\ param_values' = {}
    /\ trace' = <<>>
    /\ result' = {}
    /\ error' = {}
    /\ UNCHANGED <<grad_enabled, grad_saved, heap>>

Next ==
    \/ Call
    \/ DispatchFallback
    \/ DispatchRegister
    \/ DispatchInt
    \/ DispatchBlock
    \/ DispatchCircuit
    \/ Factory
    \/ Convert
    \/ EnterNoGrad
    \/ Embed
    \/ Execute
    \/ Return

Spec == Init /\ [][Next]_vars
\* ----------------------------------------------------------------- claims
Evs(t) == [i \in DOMAIN t |-> t[i].ev]
AtHandler == pc = "factory"
Succeeded == pc = "done" /\ error = {}

\* C1: a (register, block) call and an (n_qubits, block) call reach the
\* circuit overload with exactly the frame -- circuit, observable, keyword
\* options, operation -- that the direct call on QuantumCircuit(r, b),
\* respectively QuantumCircuit(Register(n), b), reaches it with; so the three
\* shapes coincide whenever r is the default register for n.
C1_DispatchEquivalence ==
    AtHandler =>
      /\ orig.xtype = "QuantumCircuit" => frame = orig
      /\ orig.xtype = "Register" =>
           frame = CircuitCall(orig.op,
                               QuantumCircuit(The(orig.register), The(orig.block)),
                               orig.observable, orig.kwargs)
      /\ orig.xtype = "int" =>
           /\ frame = CircuitCall(orig.op,
                                  QuantumCircuit(Register(The(orig.n_qubits)),
                                                 The(orig.block)),
                                  orig.observable, orig.kwargs)
           /\ \A r \in Registers :
                r = Register(The(orig.n_qubits)) =>
                  frame = Normalize(RegisterCall(orig.op, r, The(orig.block),
                                                 orig.observable, orig.kwargs))

C1_Witness ==
    /\ AtHandler
    /\ orig.xtype = "int"
    /\ orig.op = "expectation"
    /\ orig.kwargs.diff_mode = "gpsr"
    /\ The(frame.circuit).register \in Registers

\* C2 (as claimed): whenever the embedding function or Backend.run /
\* Backend.sample is about to execute inside a run or sample call, gradient
\* tracking is disabled.
C2_RunSampleNoGrad ==
    (pc \in {"embed", "exec"} /\ frame.op \in {"run", "sample"}) => ~grad_enabled

\* C3: in an expectation call the embedding function and Backend.expectation
\* execute with gradient tracking enabled exactly when the caller gave a
\* non-null diff_mode, and the result of a call without diff_mode does not
\* support differentiation.
C3_GradIffDiffMode ==
    /\ (pc \in {"embed", "exec"} /\ frame.op = "expectation") =>
          (grad_enabled <=> orig.kwargs.diff_mode # Omitted)
    /\ \A i \in DOMAIN trace :
          (orig.op = "expectation" /\ trace[i].ev \in {"embedding_fn", "expectation"}) =>
             (trace[i].grad <=> orig.kwargs.diff_mode # Omitted)
    /\ (Succeeded /\ orig.op = "expectation" /\ orig.kwargs.diff_mode = Omitted) =>
          ~The(result).requires_grad

C3_Witness ==
    /\ Succeeded
    /\ orig.op = "expectation"
    /\ orig.kwargs.diff_mode = Omitted
    /\ ~The(result).requires_grad
    /\ Len(trace) = 4
    /\ ~trace[4].grad

\* C4 (as claimed): a call whose first argument has none of the four
\* supported types fails with UnsupportedInputError.
C4_UnsupportedInputError ==
    (pc = "done" /\ orig.xtype \notin Registered) =>
       \E e \in error : e.kind = "UnsupportedInputError"

\* C4 (amended): such a call fails with ValueError, raised by the fallback
\* body before any overload runs, and returns nothing.
C4_FallbackValueError ==
    (pc = "done" /\ orig.xtype \notin Registered) =>
       /\ error = {[kind |-> "ValueError", at |-> "dispatch"]}
       /\ result = {}
       /\ trace = <<>>
       /\ depth = 0

C4_Witness ==
    /\ pc = "done"
    /\ orig.xtype = "float"
    /\ orig.op = "sample"
    /\ error # {}

\* C5: a raised error ends the call at once with no result; after a dispatch
\* or factory failure neither convert, the embedding function nor the backend
\* operation has been invoked, after a convert failure neither the embedding
\* function nor the backend operation; backend_factory is invoked at most
\* once, with the caller's backend and configuration, and the error the
\* caller sees is the one raised at the point of detection.
C5_FailFast ==
    /\ error # {} => (pc = "done" /\ result = {})
    /\ Cardinality({i \in DOMAIN trace : trace[i].ev = "backend_factory"}) <= 1
    /\ \A e \in error :
         /\ e.at = "dispatch" => (trace = <<>> /\ e.kind = "ValueError")
         /\ e.at = "backend_factory" =>
              /\ Evs(trace) = <<"backend_factory">>
              /\ bknd = {}
              /\ e.kind = backend_factory_error(
                             Default(orig.kwargs.backend, "pyqtorch"),
                             Default(orig.kwargs.configuration, None))
         /\ e.at = "convert" =>
              /\ Evs(trace) = <<"backend_factory", "convert">>
              /\ conv = {}
              /\ e.kind = convert_error(The(bknd), The(frame.circuit))
    /\ \A b \in bknd :
         /\ b.name = Default(orig.kwargs.backend, "pyqtorch")
         /\ b.configuration = Default(orig.kwargs.configuration, None)

C5_Witness ==
    /\ pc = "done"
    /\ \E e \in error : e.at = "backend_factory" /\ e.kind = "InvalidConfigurationError"
    /\ orig.xtype = "AbstractBlock"
    /\ orig.kwargs.backend = "pulser"

C7_WrapperHasDiffMode ==
    (pc = "exec" /\ frame.op = "expectation" /\ orig.kwargs.diff_mode # Omitted) =>
       The(bknd).diff_mode = orig.kwargs.diff_mode

\* overload hops from frame f down to the circuit overload
RECURSIVE Hops(_)
Hops(f) == IF f.xtype = "QuantumCircuit" THEN 0 ELSE 1 + Hops(Handler(f))

\* C9: dispatch takes at most two normalization steps, each a step towards
\* the circuit overload, which every supported shape can always reach, and a
\* successful call has invoked backend_factory, convert, the embedding
\* function and the one backend operation of the facade operation, in this
\* order and once each,
\* with the caller's backend and configuration, the normalized circuit (and
\* the observable list), the conversion's parameters with the caller's values,
\* and the caller's state, endianness and n_shots.
C9_Pipeline ==
    /\ depth <= 2
    /\ (pc = "dispatch" /\ orig.xtype \in Registered) =>
         /\ depth + Hops(frame) = Hops(orig)
         /\ Normalize(frame) = Normalize(orig)
         /\ ENABLED (DispatchRegister \/ DispatchInt \/ DispatchBlock
                       \/ DispatchCircuit)
    /\ AtHandler => (depth = Hops(orig) /\ frame = Normalize(orig))
    /\ Succeeded =>
         LET kw == orig.kwargs
             r == The(result)
             cv == The(conv)
             pv == The(param_values)
             vals == IF kw.values = Omitted THEN {}
                     ELSE heap[<<"caller", IF kw.values = "caller" THEN "values"
                                           ELSE kw.values>>]
         IN  /\ Evs(trace) = <<"backend_factory", "convert", "embedding_fn", orig.op>>
             /\ The(bknd).name = Default(kw.backend, "pyqtorch")
             /\ The(bknd).configuration = Default(kw.configuration, None)
             /\ cv = convert(The(bknd), The(Normalize(orig).circuit),
                             [is_list |-> TRUE, blocks |-> orig.observable.blocks])
             /\ pv = embedding_fn(cv.params, vals)
             /\ r.op = orig.op
             /\ r.call.circuit = cv.circuit
             /\ r.call.param_values = pv
             /\ r.call.state = Default(kw.state, None)
             /\ r.call.endianness = Default(kw.endianness, "BIG")
             /\ orig.op = "sample" =>
                  r.call.n_shots = (IF kw.n_shots = {} THEN DefaultNShots
                                    ELSE The(kw.n_shots))
             /\ orig.op = "expectation" => r.call.observable = cv.observable

C9_Witness ==
    /\ Succeeded
    /\ orig.op = "sample"
    /\ orig.xtype = "int"
    /\ depth = 2
    /\ orig.kwargs.n_shots = {ShotsArg}
    /\ orig.kwargs.endianness = "LITTLE"
    /\ The(result).call.n_shots = ShotsArg

\* C10: the facade writes to no mapping: every overload's default values
\* mapping stays empty, the caller's mappings keep their content, and a call
\* without values hands the embedding function the empty mapping.
C10_Stateless ==
    /\ heap = InitHeap
    /\ \A op \in Ops : heap[DefaultValuesRef(op)] = {}
    /\ \A pv \in param_values : orig.kwargs.values = Omitted => pv.values = {}
    /\ \A pv \in param_values :
         orig.kwargs.values = "caller" => pv.values = InitHeap[CallerValuesRef]

C10_Witness ==
    /\ pc = "exec"
    /\ orig.kwargs.values = Omitted
    /\ orig.op = "run"
    /\ The(param_values).values = {}
    /\ heap[DefaultValuesRef("run")] = {}

====
